---- MODULE Spec2Model ----
(***************************************************************************)
(* Model of client/src/world/chunk_view.rs (plantex): construction of the  *)
(* hexagonal-prism reference mesh, assembly of the pillar views of a chunk *)
(* and the per-frame draw loop of ChunkView.                               *)
(*                                                                         *)
(* Numbers.  The mesh coordinates are f32 values of the form               *)
(* (a + b*sqrt(3)) * unit with integer a, b.  Such a value is modelled     *)
(* exactly as the pair <<a, b>>; f32 rounding is not modelled.  Units:     *)
(* x, y and the side-wall normals are in HEX_OUTER_RADIUS / 2, z is in     *)
(* PILLAR_STEP_HEIGHT; both constants are positive, so signs of the mixed  *)
(* products used for orientation are those of the real geometry.          *)
(***************************************************************************)
EXTENDS Integers, Sequences, FiniteSets, TLC

VARIABLES pc, phase, vertices, indices, side, chunk, offset, q, pillars,
          view, frame, args, pi, si, pl, drawn

vars == <<pc, phase, vertices, indices, side, chunk, offset, q, pillars,
          view, frame, args, pi, si, pl, drawn>>

(* ------------------------------ bounds -------------------------------- *)
MaxSide == 2
MaxSeed == 3
MaxOff == 1
MaxFrames == 2
MaxPhases == 3
MaxPrior == 2

(* ------------------- exact arithmetic in Z[sqrt 3] -------------------- *)
Zero == <<0, 0>>
One == <<1, 0>>
RNeg(a) == <<0 - a[1], 0 - a[2]>>
RAdd(a, b) == <<a[1] + b[1], a[2] + b[2]>>
RSub(a, b) == <<a[1] - b[1], a[2] - b[2]>>
RMul(a, b) == <<a[1] * b[1] + 3 * a[2] * b[2], a[1] * b[2] + a[2] * b[1]>>

\* sign of a[1] + a[2]*sqrt(3)
RSign(a) ==
    IF a[1] = 0 /\ a[2] = 0 THEN 0
    ELSE IF a[1] >= 0 /\ a[2] >= 0 THEN 1
    ELSE IF a[1] <= 0 /\ a[2] <= 0 THEN -1
    ELSE IF a[1] > 0 THEN (IF a[1] * a[1] > 3 * a[2] * a[2] THEN 1 ELSE -1)
    ELSE (IF 3 * a[2] * a[2] > a[1] * a[1] THEN 1 ELSE -1)

VSub(u, v) == <<RSub(u[1], v[1]), RSub(u[2], v[2]), RSub(u[3], v[3])>>
VDot(u, v) == RAdd(RAdd(RMul(u[1], v[1]), RMul(u[2], v[2])), RMul(u[3], v[3]))
VCross(u, v) ==
    <<RSub(RMul(u[2], v[3]), RMul(u[3], v[2])),
      RSub(RMul(u[3], v[1]), RMul(u[1], v[3])),
      RSub(RMul(u[1], v[2]), RMul(u[2], v[1]))>>

(* ----------------------------- hex_corner ----------------------------- *)
\* 2*cos of k*30 degrees, k in 0..11
Cos30x2(k) ==
    CASE k = 0 -> <<2, 0>>  [] k = 1 -> <<0, 1>>   [] k = 2 -> <<1, 0>>
      [] k = 3 -> <<0, 0>>  [] k = 4 -> <<-1, 0>>  [] k = 5 -> <<0, -1>>
      [] k = 6 -> <<-2, 0>> [] k = 7 -> <<0, -1>>  [] k = 8 -> <<-1, 0>>
      [] k = 9 -> <<0, 0>>  [] k = 10 -> <<1, 0>>  [] k = 11 -> <<0, 1>>

\* 2*sin of k*30 degrees: sin(x) = cos(x - 90)
Sin30x2(k) == Cos30x2((k + 9) % 12)

\* angle_deg = 60*i + 30, i.e. (2*i + 1) steps of 30 degrees
hex_corner(i) ==
    LET k == (2 * i + 1) % 12
    IN  <<Cos30x2(k), Sin30x2(k)>>

Vertex(p, n) == [position |-> p, normal |-> n]

(* ------------------------ mesh building phases ------------------------ *)
\* variant: the centre vertex of the cap is not pushed
TopVerticesNoCentre ==
    [i \in 1..6 |->
        Vertex(<<hex_corner(i - 1)[1], hex_corner(i - 1)[2], One>>,
               <<Zero, Zero, One>>)]

TopVertices ==
    [i \in 1..7 |->
        IF i <= 6
        THEN Vertex(<<hex_corner(i - 1)[1], hex_corner(i - 1)[2], One>>,
                    <<Zero, Zero, One>>)
        ELSE Vertex(<<Zero, Zero, One>>, <<Zero, Zero, One>>)]

TopLocal == <<0, 6, 1,  5, 6, 0,  4, 6, 5,  3, 6, 4,  2, 6, 3,  1, 6, 2>>

BottomVertices ==
    [i \in 1..7 |->
        IF i <= 6
        THEN Vertex(<<hex_corner(i - 1)[1], hex_corner(i - 1)[2], Zero>>,
                    <<Zero, Zero, RNeg(One)>>)
        ELSE Vertex(<<Zero, Zero, Zero>>, <<Zero, Zero, RNeg(One)>>)]

BottomLocal == <<1, 6, 0,  0, 6, 5,  5, 6, 4,  4, 6, 3,  3, 6, 2,  2, 6, 1>>

SideNormal(ind1, ind2) ==
    LET c1 == hex_corner(ind1)
        c2 == hex_corner(ind2)
    IN  <<RAdd(c1[2], c2[2]), RAdd(c1[1], c2[1]), Zero>>

SideVertices(ind1, ind2) ==
    LET c1 == hex_corner(ind1)
        c2 == hex_corner(ind2)
        normal == SideNormal(ind1, ind2)
    IN  <<Vertex(<<c1[1], c1[2], One>>, normal),
          Vertex(<<c1[1], c1[2], Zero>>, normal),
          Vertex(<<c2[1], c2[2], One>>, normal),
          Vertex(<<c2[1], c2[2], Zero>>, normal)>>

\* variant: the first triangle of the quad wound the other way
SideLocalFlipped == <<0, 1, 2,  1, 2, 3>>

SideLocal == <<0, 2, 1,  1, 2, 3>>

\* variant: the local indices are appended without the base offset
RebaseNone(cur_len, local) == local

\* indices.append(&mut vec![cur_len + ...]) with cur_len = vertices.len()
Rebase(cur_len, local) == [i \in 1..Len(local) |-> cur_len + local[i]]

get_top_hexagon_model ==
    /\ vertices' = vertices \o TopVertices
    /\ indices' = indices \o Rebase(Len(vertices), TopLocal)

get_bottom_hexagon_model ==
    /\ vertices' = vertices \o BottomVertices
    /\ indices' = indices \o Rebase(Len(vertices), BottomLocal)

get_side_hexagon_model(ind1, ind2) ==
    /\ vertices' = vertices \o SideVertices(ind1, ind2)
    /\ indices' = indices \o Rebase(Len(vertices), SideLocal)

\* variant: edge (4,5) built twice, edge (2,3) never
SideCallsDuplicate == <<<<4, 5>>, <<1, 2>>, <<5, 0>>, <<0, 1>>, <<3, 4>>, <<4, 5>>>>

\* the six side-wall calls of from_chunk, in source order
SideCalls == <<<<4, 5>>, <<1, 2>>, <<5, 0>>, <<0, 1>>, <<3, 4>>, <<2, 3>>>>

(* ------------------------- world data (inputs) ------------------------ *)
\* HeightType::to_real and AxialPoint::to_real live in the base crate.
\* A world-space height is the step count tagged with the conversion; the
\* axial projection is the pointy-top one (x in inner radii, y in 3/2 outer
\* radii), which is linear.
HeightToReal(h) == <<"to_real", h>>
AxialToReal(a) == <<2 * a[1] + a[2], a[2]>>
PointAdd(a, b) == <<a[1] + b[1], a[2] + b[2]>>

Grounds == <<"grass", "sand", "stone">>
Cameras == {"cam1", "cam2"}
Surfaces == {"frame1", "frame2"}

\* Pillar number k (0-based) of the chunk generated by seed: 0..2 sections
\* stacked bottom-up with top > bottom, and 0..2 plant props.
SectionOf(seed, k, j) ==
    [bottom |-> 3 * (j - 1),
     top    |-> 3 * (j - 1) + 1 + ((seed + k + j) % 3),
     ground |-> Grounds[((seed + j) % 3) + 1]]

PropOf(seed, k, j) ==
    [baseline |-> j + (seed % 2), plant |-> <<"plant", k, j>>]

PillarOf(seed, k) ==
    [sections |-> [j \in 1..((seed + k) % 3) |-> SectionOf(seed, k, j)],
     props    |-> [j \in 1..((seed + (k \div 2)) % 3) |-> PropOf(seed, k, j)]]

ChunkOf(n, seed) == [i \in 1..(n * n) |-> PillarOf(seed, i - 1)]

\* axial chunk offsets tried, negative coordinates included
Offsets == {<<a, MaxOff - a>> : a \in -1..MaxOff}

(* ----------------------------- from_chunk ----------------------------- *)
PlantViewOf(pos, prop) ==
    [pos |-> <<pos[1], pos[2], HeightToReal(prop.baseline)>>, plant |-> prop.plant]

from_pillar(pos, pillar) ==
    [pos      |-> pos,
     sections |-> pillar.sections,
     plants   |-> [j \in 1..Len(pillar.props) |-> PlantViewOf(pos, pillar.props[j])]]

\* variant: quotient and remainder exchanged
PillarPosSwapped(off, k, n) ==
    PointAdd(AxialToReal(off), AxialToReal(<<k % n, k \div n>>))

\* pos of the pillar with linear index k in a chunk of side n
PillarPos(off, k, n) ==
    PointAdd(AxialToReal(off), AxialToReal(<<k \div n, k % n>>))

NoView == [vertices |-> "none", program |-> "none", index_buffer |-> "none"]

BuildTop ==
    /\ pc = "build" /\ phase = 0
    /\ get_top_hexagon_model
    /\ phase' = 1
    /\ UNCHANGED <<pc, side, chunk, offset, q, pillars, view, frame, args,
                   pi, si, pl, drawn>>

BuildBottom ==
    /\ pc = "build" /\ phase = 1
    /\ get_bottom_hexagon_model
    /\ phase' = 2
    /\ UNCHANGED <<pc, side, chunk, offset, q, pillars, view, frame, args,
                   pi, si, pl, drawn>>

BuildSide ==
    /\ pc = "build" /\ phase \in 2..7
    /\ get_side_hexagon_model(SideCalls[phase - 1][1], SideCalls[phase - 1][2])
    /\ phase' = phase + 1
    /\ UNCHANGED <<pc, side, chunk, offset, q, pillars, view, frame, args,
                   pi, si, pl, drawn>>

\* VertexBuffer::new(..).unwrap() and Program::from_source(..).unwrap()
CreateVertexBuffer ==
    /\ pc = "build" /\ phase = 8
    /\ \E ok \in BOOLEAN :
          IF ok
          THEN /\ view' = [view EXCEPT !.vertices = <<"vbuf", Len(vertices)>>,
                                       !.program = <<"prog", "chunk_std">>]
               /\ pc' = "assemble"
          ELSE /\ pc' = "panicked"
               /\ view' = view
    /\ q' = 0
    /\ pillars' = <<>>
    /\ UNCHANGED <<phase, vertices, indices, side, chunk, offset, frame,
                   args, pi, si, pl, drawn>>

AssemblePillar ==
    /\ pc = "assemble" /\ q < side * side
    /\ pillars' = Append(pillars,
                         from_pillar(PillarPos(offset, q, side), chunk[q + 1]))
    /\ q' = q + 1
    /\ UNCHANGED <<pc, phase, vertices, indices, side, chunk, offset, view,
                   frame, args, pi, si, pl, drawn>>

\* IndexBuffer::new(..).unwrap(), then the ChunkView is returned
CreateIndexBuffer ==
    /\ pc = "assemble" /\ q = side * side
    /\ \E ok \in BOOLEAN :
          IF ok
          THEN /\ view' = [view EXCEPT !.index_buffer = <<"ibuf", Len(indices)>>]
               /\ pc' = "ready"
          ELSE /\ pc' = "panicked"
               /\ view' = view
    /\ UNCHANGED <<phase, vertices, indices, side, chunk, offset, q, pillars,
                   frame, args, pi, si, pl, drawn>>

(* -------------------------------- draw -------------------------------- *)
\* variant: the top elevation passed as the height
TerrainUniformsTopAsHeight(pillar, section, cam) ==
    [height         |-> section.top,
     offset         |-> <<pillar.pos[1], pillar.pos[2], HeightToReal(section.bottom)>>,
     proj_matrix    |-> <<"proj_matrix", cam>>,
     view_matrix    |-> <<"view_matrix", cam>>,
     material_color |-> <<"color", section.ground>>]

TerrainUniforms(pillar, section, cam) ==
    [height         |-> section.top - section.bottom,
     offset         |-> <<pillar.pos[1], pillar.pos[2], HeightToReal(section.bottom)>>,
     proj_matrix    |-> <<"proj_matrix", cam>>,
     view_matrix    |-> <<"view_matrix", cam>>,
     material_color |-> <<"color", section.ground>>]

DrawParams ==
    [depth_write |-> TRUE, depth_test |-> "IfLess",
     backface_culling |-> "CullCounterClockwise"]

TerrainCall(v, pillar, section, at, arg, ok) ==
    [kind     |-> "terrain",
     at       |-> at,
     surface  |-> arg.surface,
     vertices |-> v.vertices,
     indices  |-> v.index_buffer,
     program  |-> v.program,
     uniforms |-> TerrainUniforms(pillar, section, arg.camera),
     params   |-> DrawParams,
     ok       |-> ok]

PlantCall(plant, at, arg) ==
    [kind |-> "plant", at |-> at, surface |-> arg.surface, camera |-> arg.camera,
     plant |-> plant, ok |-> TRUE]

DrawBegin ==
    /\ pc = "ready" /\ frame < MaxFrames
    /\ \E s \in Surfaces, c \in Cameras : args' = [surface |-> s, camera |-> c]
    /\ frame' = frame + 1
    /\ pc' = "draw"
    /\ pi' = 1 /\ si' = 1 /\ pl' = 1
    /\ drawn' = <<>>
    /\ UNCHANGED <<phase, vertices, indices, side, chunk, offset, q, pillars, view>>

\* variant: the loop steps over every second section
DrawSectionSkipping ==
    /\ pc = "draw" /\ pi <= Len(pillars)
    /\ si <= Len(pillars[pi].sections)
    /\ \E ok \in BOOLEAN :
          /\ drawn' = Append(drawn,
                 TerrainCall(view, pillars[pi], pillars[pi].sections[si],
                             <<pi, si>>, args, ok))
          /\ IF ok THEN pc' = pc /\ si' = si + 2
                   ELSE pc' = "panicked" /\ si' = si
    /\ UNCHANGED <<phase, vertices, indices, side, chunk, offset, q, pillars,
                   view, frame, args, pi, pl>>

\* variant: the result of surface.draw is dropped instead of unwrapped
DrawSectionIgnoringError ==
    /\ pc = "draw" /\ pi <= Len(pillars)
    /\ si <= Len(pillars[pi].sections)
    /\ \E ok \in BOOLEAN :
          drawn' = Append(drawn,
                 TerrainCall(view, pillars[pi], pillars[pi].sections[si],
                             <<pi, si>>, args, ok))
    /\ si' = si + 1
    /\ UNCHANGED <<pc, phase, vertices, indices, side, chunk, offset, q,
                   pillars, view, frame, args, pi, pl>>

\* one iteration of `for section in &pillar.sections`
DrawSection ==
    /\ pc = "draw" /\ pi <= Len(pillars)
    /\ si <= Len(pillars[pi].sections)
    /\ \E ok \in BOOLEAN :
          /\ drawn' = Append(drawn,
                 TerrainCall(view, pillars[pi], pillars[pi].sections[si],
                             <<pi, si>>, args, ok))
          /\ IF ok THEN pc' = pc /\ si' = si + 1
                   ELSE pc' = "panicked" /\ si' = si
    /\ UNCHANGED <<phase, vertices, indices, side, chunk, offset, q, pillars,
                   view, frame, args, pi, pl>>

\* variant: plants drawn without waiting for the section loop
DrawPlantEarly ==
    /\ pc = "draw" /\ pi <= Len(pillars)
    /\ pl <= Len(pillars[pi].plants)
    /\ drawn' = Append(drawn, PlantCall(pillars[pi].plants[pl], <<pi, pl>>, args))
    /\ pl' = pl + 1
    /\ UNCHANGED <<pc, phase, vertices, indices, side, chunk, offset, q,
                   pillars, view, frame, args, pi, si>>

\* one iteration of `for plant in &pillar.plants`
DrawPlant ==
    /\ pc = "draw" /\ pi <= Len(pillars)
    /\ si > Len(pillars[pi].sections)
    /\ pl <= Len(pillars[pi].plants)
    /\ drawn' = Append(drawn, PlantCall(pillars[pi].plants[pl], <<pi, pl>>, args))
    /\ pl' = pl + 1
    /\ UNCHANGED <<pc, phase, vertices, indices, side, chunk, offset, q,
                   pillars, view, frame, args, pi, si>>

NextPillar ==
    /\ pc = "draw" /\ pi <= Len(pillars)
    /\ si > Len(pillars[pi].sections)
    /\ pl > Len(pillars[pi].plants)
    /\ pi' = pi + 1 /\ si' = 1 /\ pl' = 1
    /\ UNCHANGED <<pc, phase, vertices, indices, side, chunk, offset, q,
                   pillars, view, frame, args, drawn>>

DrawEnd ==
    /\ pc = "draw" /\ pi > Len(pillars)
    /\ pc' = "ready"
    /\ UNCHANGED <<phase, vertices, indices, side, chunk, offset, q, pillars,
                   view, frame, args, pi, si, pl, drawn>>

(* --------------------------- specification ---------------------------- *)
Init ==
    /\ pc = "build" /\ phase = 0
    /\ vertices = <<>> /\ indices = <<>>
    /\ side \in 0..MaxSide
    /\ \E seed \in 0..MaxSeed : chunk = ChunkOf(side, seed)
    /\ offset \in Offsets
    /\ q = 0 /\ pillars = <<>> /\ view = NoView
    /\ frame = 0 /\ args = [surface |-> "frame1", camera |-> "cam1"]
    /\ pi = 1 /\ si = 1 /\ pl = 1 /\ drawn = <<>>

Next ==
    \/ BuildTop \/ BuildBottom \/ BuildSide
    \/ CreateVertexBuffer \/ AssemblePillar \/ CreateIndexBuffer
    \/ DrawBegin \/ DrawSection \/ DrawPlant \/ NextPillar \/ DrawEnd

Spec == Init /\ [][Next]_vars

(* ------------- the mesh phases on arbitrary shared buffers ------------ *)
\* Buffers that already hold p vertices and p triangles over them.
PriorVertices(p) == [i \in 1..p |-> Vertex(<<Zero, Zero, Zero>>, <<Zero, Zero, Zero>>)]
PriorIndices(p) == [i \in 1..(3 * p) |-> (i - 1) \div 3]

InitPhases ==
    /\ pc = "phases" /\ phase = 0
    /\ \E p \in 0..MaxPrior :
          /\ vertices = PriorVertices(p)
          /\ indices = PriorIndices(p)
    /\ side = 0 /\ chunk = <<>> /\ offset = <<0, 0>>
    /\ q = 0 /\ pillars = <<>> /\ view = NoView
    /\ frame = 0 /\ args = [surface |-> "frame1", camera |-> "cam1"]
    /\ pi = 1 /\ si = 1 /\ pl = 1 /\ drawn = <<>>

PhaseRest ==
    /\ phase' = phase + 1
    /\ UNCHANGED <<pc, side, chunk, offset, q, pillars, view, frame, args,
                   pi, si, pl, drawn>>

PhaseTop ==
    /\ pc = "phases" /\ phase < MaxPhases
    /\ get_top_hexagon_model
    /\ PhaseRest

PhaseBottom ==
    /\ pc = "phases" /\ phase < MaxPhases
    /\ get_bottom_hexagon_model
    /\ PhaseRest

PhaseSide ==
    /\ pc = "phases" /\ phase < MaxPhases
    /\ \E k \in 1..Len(SideCalls) :
          get_side_hexagon_model(SideCalls[k][1], SideCalls[k][2])
    /\ PhaseRest

NextPhases == PhaseTop \/ PhaseBottom \/ PhaseSide

SpecPhases == InitPhases /\ [][NextPhases]_vars

(* =============================== claims =============================== *)
MeshBuilt == pc \in {"assemble", "ready", "draw"} \/ (pc = "panicked" /\ phase = 8)

\* vertices and indices the first ph phases of from_chunk must have emitted
ExpectedVertexCount(ph) ==
    IF ph = 0 THEN 0 ELSE IF ph = 1 THEN 7 ELSE 14 + 4 * (ph - 2)
ExpectedIndexCount(ph) ==
    IF ph = 0 THEN 0 ELSE IF ph = 1 THEN 18 ELSE 36 + 6 * (ph - 2)

\* C6: after the top cap the mesh has 7 vertices and 18 indices, after the
\* bottom cap 14 and 36, every side wall adds 4 vertices and 6 indices, and
\* once all eight calls are made it has exactly 38 vertices and 72 indices,
\* for every chunk and every axial offset.
C6_MeshSize ==
    /\ pc \in {"build", "assemble", "ready", "draw", "panicked"}
    /\ Len(vertices) = ExpectedVertexCount(phase)
    /\ Len(indices) = ExpectedIndexCount(phase)
    /\ MeshBuilt => /\ phase = 8
                    /\ Len(vertices) = 38
                    /\ Len(indices) = 72

C6_Witness ==
    /\ pc = "ready" /\ side = MaxSide /\ offset # <<0, 0>>
    /\ Len(vertices) = 38 /\ Len(indices) = 72

\* the side wall number k (1..6) occupies vertices 14 + 4(k-1) + 1 .. + 4
WallVertex(k, j) == vertices[14 + 4 * (k - 1) + j]
CornerOf(v) ==
    CHOOSE i \in -1..5 :
        \/ i >= 0 /\ hex_corner(i) = <<v.position[1], v.position[2]>>
        \/ i = -1 /\ \A c \in 0..5 : hex_corner(c) # <<v.position[1], v.position[2]>>
WallPair(k) == {CornerOf(WallVertex(k, 1)), CornerOf(WallVertex(k, 3))}
ListedEdges == {{4, 5}, {1, 2}, {5, 0}, {0, 1}, {3, 4}, {2, 3}}
AdjacentEdges == {{i, (i + 1) % 6} : i \in 0..5}

\* C7: the six side walls of the built mesh lie on six different hex edges,
\* the set of their corner pairs is the listed set and is the set of all
\* adjacent corner pairs, and each wall's vertices are corner-1-top,
\* corner-1-bottom, corner-2-top, corner-2-bottom.
C7_SideWallsCoverEdges ==
    MeshBuilt =>
        /\ {WallPair(k) : k \in 1..6} = ListedEdges
        /\ ListedEdges = AdjacentEdges
        /\ Cardinality({WallPair(k) : k \in 1..6}) = 6
        /\ \A k \in 1..6 :
              /\ Cardinality(WallPair(k)) = 2
              /\ WallVertex(k, 1).position[3] = One
              /\ WallVertex(k, 2).position[3] = Zero
              /\ WallVertex(k, 3).position[3] = One
              /\ WallVertex(k, 4).position[3] = Zero
              /\ CornerOf(WallVertex(k, 2)) = CornerOf(WallVertex(k, 1))
              /\ CornerOf(WallVertex(k, 4)) = CornerOf(WallVertex(k, 3))

C7_Witness == MeshBuilt /\ pc = "assemble" /\ WallPair(6) = {2, 3}

\* Triangle number t (1-based) of the index buffer, as three positions.
TriPos(t, j) == vertices[indices[3 * (t - 1) + j] + 1].position
TriNormal(t) ==
    VCross(VSub(TriPos(t, 2), TriPos(t, 1)), VSub(TriPos(t, 3), TriPos(t, 1)))
\* twice the vector from the prism centre (0, 0, 1/2) to 3 * centroid
TriOutward(t) ==
    LET sum == [j \in 1..3 |->
                   RAdd(RAdd(TriPos(t, 1)[j], TriPos(t, 2)[j]), TriPos(t, 3)[j])]
    IN  <<RAdd(sum[1], sum[1]), RAdd(sum[2], sum[2]),
          RSub(RAdd(sum[3], sum[3]), <<3, 0>>)>>
\* The right-hand normal of a triangle points to the side from which it is
\* seen counter-clockwise; clockwise from outside means it points inward.
ClockwiseFromOutside(t) == RSign(VDot(TriNormal(t), TriOutward(t))) = -1
TriIndices(t) == <<indices[3 * t - 2], indices[3 * t - 1], indices[3 * t]>>
Rotations(tr) == {tr, <<tr[2], tr[3], tr[1]>>, <<tr[3], tr[1], tr[2]>>}

\* C8: every triangle emitted so far is clockwise seen from outside the
\* prism; in the built mesh each bottom-cap triangle is a top-cap triangle
\* (shifted by the 7 vertices of the top cap) with its winding reversed, and
\* the two triangles of a side wall have the same orientation.
C8_Winding ==
    /\ pc # "phases" =>
          \A t \in 1..(Len(indices) \div 3) : ClockwiseFromOutside(t)
    /\ MeshBuilt =>
          /\ \A b \in 7..12 : \E t \in 1..6 :
                <<TriIndices(b)[3] - 7, TriIndices(b)[2] - 7, TriIndices(b)[1] - 7>>
                    \in Rotations(TriIndices(t))
          /\ \A k \in 1..6 :
                RSign(VDot(TriNormal(12 + 2 * k - 1), TriNormal(12 + 2 * k))) = 1

C8_Witness == MeshBuilt /\ Len(indices) \div 3 = 24 /\ ClockwiseFromOutside(24)

\* C9: all four vertices of every side wall carry the normal
\* (x1 + x2, y1 + y2, 0), and it has a positive dot product with the
\* midpoint of the wall's edge.
C9_SideNormalIsOutwardSum ==
    MeshBuilt =>
        \A k \in 1..6 :
            LET c1 == WallVertex(k, 1).position
                c2 == WallVertex(k, 3).position
                n  == <<RAdd(c1[1], c2[1]), RAdd(c1[2], c2[2]), Zero>>
            IN  /\ \A j \in 1..4 : WallVertex(k, j).normal = n
                /\ RSign(VDot(WallVertex(k, 1).normal, n)) = 1

\* C10: a phase leaves the vertices and indices it found unchanged, appends
\* n = 7 or 4 vertices, appends only indices in [L, L + n) for L the vertex
\* count at entry, and references every vertex it appends; hence every
\* index of the buffers is below the vertex count and every vertex is used.
PhaseKeepsBase ==
    LET L == Len(vertices)
        I == Len(indices)
        n == Len(vertices') - L
    IN  vertices' # vertices =>
            /\ n \in {4, 7}
            /\ SubSeq(vertices', 1, L) = vertices
            /\ SubSeq(indices', 1, I) = indices
            /\ Len(indices') > I
            /\ \A j \in (I + 1)..Len(indices') :
                  indices'[j] >= L /\ indices'[j] < L + n
            /\ \A v \in L..(L + n - 1) :
                  \E j \in (I + 1)..Len(indices') : indices'[j] = v
IndicesInRange ==
    /\ \A j \in 1..Len(indices) : indices[j] >= 0 /\ indices[j] < Len(vertices)
    /\ \A v \in 0..(Len(vertices) - 1) : \E j \in 1..Len(indices) : indices[j] = v

C10_IndexBase == [](IndicesInRange) /\ [][PhaseKeepsBase]_vars

C10_Witness ==
    /\ pc = "phases" /\ phase = MaxPhases
    /\ Len(vertices) > 14 /\ vertices[1].normal = <<Zero, Zero, Zero>>
    /\ vertices[Len(vertices)].normal = <<Zero, Zero, One>>

(* ------------------------------- drawing ------------------------------ *)
DrawReturned == pc = "ready" /\ frame > 0
TerrainCalls == {i \in 1..Len(drawn) : drawn[i].kind = "terrain"}
PlantCalls == {i \in 1..Len(drawn) : drawn[i].kind = "plant"}
RECURSIVE SectionCount(_)
SectionCount(ps) ==
    IF ps = <<>> THEN 0 ELSE Len(Head(ps).sections) + SectionCount(Tail(ps))

\* C1: no section gets more than one terrain draw call, and when draw has
\* returned every section of every pillar view has got exactly one, so that
\* their number is the sum of the pillars' section counts; every terrain
\* call uses the vertex buffer, index buffer and program of the ChunkView;
\* with zero pillars nothing at all is drawn.
C1_OneCallPerSection ==
    /\ \A i \in TerrainCalls :
          /\ drawn[i].vertices = view.vertices
          /\ drawn[i].indices = view.index_buffer
          /\ drawn[i].program = view.program
          /\ drawn[i].vertices = <<"vbuf", 38>>
          /\ drawn[i].indices = <<"ibuf", 72>>
          /\ drawn[i].at[1] \in 1..Len(pillars)
          /\ drawn[i].at[2] \in 1..Len(pillars[drawn[i].at[1]].sections)
    /\ \A i, j \in TerrainCalls : drawn[i].at = drawn[j].at => i = j
    /\ DrawReturned =>
          /\ \A p \in 1..Len(pillars) : \A s \in 1..Len(pillars[p].sections) :
                \E i \in TerrainCalls : drawn[i].at = <<p, s>>
          /\ Cardinality(TerrainCalls) = SectionCount(pillars)
    /\ Len(pillars) = 0 => drawn = <<>>

C1_Witness ==
    /\ DrawReturned /\ Len(pillars) = MaxSide * MaxSide
    /\ Cardinality(TerrainCalls) >= 3
    /\ \E p \in 1..Len(pillars) : Len(pillars[p].sections) = 0

\* C2: a terrain draw call for section s of pillar p has height
\* s.top - s.bottom and offset (p.pos.x, p.pos.y, s.bottom in world space),
\* and the height is positive whenever s.top > s.bottom.
C2_HeightAndOffset ==
    \A i \in TerrainCalls :
        LET p == pillars[drawn[i].at[1]]
            s == p.sections[drawn[i].at[2]]
            u == drawn[i].uniforms
        IN  /\ u.height = s.top - s.bottom
            /\ u.offset = <<p.pos[1], p.pos[2], HeightToReal(s.bottom)>>
            /\ s.top > s.bottom => u.height > 0

C2_Witness ==
    \E i, j \in TerrainCalls :
        /\ drawn[i].uniforms.height = 3
        /\ drawn[i].uniforms.offset[3] = HeightToReal(0)
        /\ drawn[j].uniforms.offset[3] = HeightToReal(3)
        /\ drawn[j].uniforms.offset[1] > 0

\* position of a call in the order pillar, terrain before plants, item
CallKey(c) == <<c.at[1], IF c.kind = "terrain" THEN 0 ELSE 1, c.at[2]>>
KeyLess(a, b) ==
    \/ a[1] < b[1]
    \/ a[1] = b[1] /\ a[2] < b[2]
    \/ a[1] = b[1] /\ a[2] = b[2] /\ a[3] < b[3]
\* what the loops have completed when they stand at (pi, si, pl)
Issued(c) ==
    \/ c.at[1] < pi
    \/ c.at[1] = pi /\ c.kind = "terrain"
          /\ (c.at[2] < si \/ (pc = "panicked" /\ c.at[2] = si))
    \/ c.at[1] = pi /\ c.kind = "plant" /\ c.at[2] < pl

\* C3: the calls of one draw are issued pillar by pillar in stored order,
\* within a pillar all terrain calls in section order and then the plants in
\* list order, nothing is skipped on the way; each plant is drawn with the
\* surface and camera draw received, and exactly once when draw returns.
C3_TerrainThenPlants ==
    /\ \A i, j \in 1..Len(drawn) :
          i < j => KeyLess(CallKey(drawn[i]), CallKey(drawn[j]))
    /\ \A i \in 1..Len(drawn) :
          /\ drawn[i].surface = args.surface
          /\ drawn[i].kind = "plant" =>
                /\ drawn[i].camera = args.camera
                /\ drawn[i].plant = pillars[drawn[i].at[1]].plants[drawn[i].at[2]]
    /\ pc \in {"draw", "panicked"} /\ frame > 0 =>
          \A p \in 1..Len(pillars) :
             /\ \A s \in 1..Len(pillars[p].sections) :
                   Issued([kind |-> "terrain", at |-> <<p, s>>])
                      => \E i \in TerrainCalls : drawn[i].at = <<p, s>>
             /\ \A k \in 1..Len(pillars[p].plants) :
                   Issued([kind |-> "plant", at |-> <<p, k>>])
                      => \E i \in PlantCalls : drawn[i].at = <<p, k>>
    /\ DrawReturned =>
          \A p \in 1..Len(pillars) : \A k \in 1..Len(pillars[p].plants) :
              Cardinality({i \in PlantCalls : drawn[i].at = <<p, k>>}) = 1

C3_Witness ==
    /\ DrawReturned
    /\ \E i \in PlantCalls : \E j \in TerrainCalls :
          /\ j = i + 1
          /\ drawn[i].at[1] + 1 = drawn[j].at[1]
          /\ drawn[i].at[2] = 2
    /\ \E i \in PlantCalls : i > 2 /\ drawn[i - 1].kind = "terrain"
                             /\ drawn[i - 2].kind = "terrain"

\* C4: a failed terrain draw call is the last call of the invocation: it is
\* not issued again and nothing is drawn after it, and draw never returns.
C4_FailureIsFatal ==
    \A i \in 1..Len(drawn) :
        ~drawn[i].ok =>
            /\ i = Len(drawn)
            /\ pc = "panicked"
            /\ drawn[i].kind = "terrain"

C4_Witness ==
    /\ pc = "panicked" /\ Len(drawn) >= 2 /\ ~drawn[Len(drawn)].ok
    /\ pi < Len(pillars)
    /\ pl <= Len(pillars[pi].plants)
    /\ si < Len(pillars[pi].sections)

\* C5: from_chunk builds side * side pillar views; the view with linear
\* index k comes from chunk pillar k, keeps its section list, and stands at
\* to_real(offset) + to_real(axial(k / side, k % side)); the positions are
\* those of all cells of the side x side grid, each taken once.
C5_PillarViews ==
    /\ pc \in {"ready", "draw"} => Len(pillars) = side * side
    /\ pc = "assemble" => Len(pillars) = q
    /\ \A k \in 0..(Len(pillars) - 1) :
          /\ pillars[k + 1].pos =
                PointAdd(AxialToReal(offset),
                         AxialToReal(<<k \div side, k % side>>))
          /\ pillars[k + 1].sections = chunk[k + 1].sections
          /\ Len(pillars[k + 1].plants) = Len(chunk[k + 1].props)
    /\ pc \in {"ready", "draw"} =>
          /\ {pillars[i].pos : i \in 1..Len(pillars)} =
                {PointAdd(AxialToReal(offset), AxialToReal(<<a, b>>)) :
                    a \in 0..(side - 1), b \in 0..(side - 1)}
          /\ Cardinality({pillars[i].pos : i \in 1..Len(pillars)}) = side * side

C5_Witness ==
    /\ pc = "ready" /\ side = MaxSide /\ side >= 2 /\ offset[2] > 0
    /\ Len(pillars) = side * side
    /\ \E k \in 1..Len(pillars) : Len(pillars[k].sections) = 2

====
